---------------------------- MODULE Spec2Model ----------------------------
(* Morse decoder: text -> tone bursts (encode.py) and sample buffer ->     *)
(* on/off runs -> dot/dash symbols -> characters -> words -> text          *)
(* (decode.py), as one run of decode.py's __main__ block.                  *)
(*                                                                         *)
(* Sample counts are modelled at a scaled sample rate (SampleRate samples  *)
(* per second, ten samples per second = one sample per 100 ms dot unit).   *)
(* A decoder run reads a file at that rate or at three times that rate.    *)
(* At such rates int(0.01 * sample_rate) < 1, so the envelope window is    *)
(* one sample and smoothed_power is |x|; the band-pass design is           *)
(* degenerate and bandpass_filter_signal returns its input.  A tone sample *)
(* is the amplitude TONE, silence is 0.  The envelope for windows of two   *)
(* and three samples and the band-pass design at higher rates are run on   *)
(* their own (SpecEnvelope, SpecBand), and so are the two encoders          *)
(* (SpecEncode).                                                           *)
(* Centroids are exact rationals <<sum, count>>; the floating-point        *)
(* rounding of scikit-learn's centres is not modelled.                     *)
EXTENDS Integers, Sequences, FiniteSets, TLC

(* ----------------------------- bounds ---------------------------------- *)
SampleRate == 10
MaxLen == 5
MaxMsgLen == 3
MaxRuns == 5
MaxPick == 1

(* ------------------------ program constants ---------------------------- *)
DOT_MS == 100
DASH_MS == 300
INTRA_CHAR_SPACE == 0
INTER_LETTER_SPACE == 1
INTER_WORD_SPACE == 2
TONE == 1

morse_code ==
    ("A" :> <<".", "-">>)
    @@ ("B" :> <<"-", ".", ".", ".">>)
    @@ ("C" :> <<"-", ".", "-", ".">>)
    @@ ("D" :> <<"-", ".", ".">>)
    @@ ("E" :> <<".">>)
    @@ ("F" :> <<".", ".", "-", ".">>)
    @@ ("G" :> <<"-", "-", ".">>)
    @@ ("H" :> <<".", ".", ".", ".">>)
    @@ ("I" :> <<".", ".">>)
    @@ ("J" :> <<".", "-", "-", "-">>)
    @@ ("K" :> <<"-", ".", "-">>)
    @@ ("L" :> <<".", "-", ".", ".">>)
    @@ ("M" :> <<"-", "-">>)
    @@ ("N" :> <<"-", ".">>)
    @@ ("O" :> <<"-", "-", "-">>)
    @@ ("P" :> <<".", "-", "-", ".">>)
    @@ ("Q" :> <<"-", "-", ".", "-">>)
    @@ ("R" :> <<".", "-", ".">>)
    @@ ("S" :> <<".", ".", ".">>)
    @@ ("T" :> <<"-">>)
    @@ ("U" :> <<".", ".", "-">>)
    @@ ("V" :> <<".", ".", ".", "-">>)
    @@ ("W" :> <<".", "-", "-">>)
    @@ ("X" :> <<"-", ".", ".", "-">>)
    @@ ("Y" :> <<"-", ".", "-", "-">>)
    @@ ("Z" :> <<"-", "-", ".", ".">>)
    @@ ("0" :> <<"-", "-", "-", "-", "-">>)
    @@ ("1" :> <<".", "-", "-", "-", "-">>)
    @@ ("2" :> <<".", ".", "-", "-", "-">>)
    @@ ("3" :> <<".", ".", ".", "-", "-">>)
    @@ ("4" :> <<".", ".", ".", ".", "-">>)
    @@ ("5" :> <<".", ".", ".", ".", ".">>)
    @@ ("6" :> <<"-", ".", ".", ".", ".">>)
    @@ ("7" :> <<"-", "-", ".", ".", ".">>)
    @@ ("8" :> <<"-", "-", "-", ".", ".">>)
    @@ ("9" :> <<"-", "-", "-", "-", ".">>)
    @@ (" " :> <<"/">>)
    @@ ("," :> <<"-", "-", ".", ".", "-", "-">>)
    @@ ("." :> <<".", "-", ".", "-", ".", "-">>)
    @@ ("?" :> <<".", ".", "-", "-", ".", ".">>)

MORSE_CODE_DICT ==
    (<<".", "-">> :> "A")
    @@ (<<"-", ".", ".", ".">> :> "B")
    @@ (<<"-", ".", "-", ".">> :> "C")
    @@ (<<"-", ".", ".">> :> "D")
    @@ (<<".">> :> "E")
    @@ (<<".", ".", "-", ".">> :> "F")
    @@ (<<"-", "-", ".">> :> "G")
    @@ (<<".", ".", ".", ".">> :> "H")
    @@ (<<".", ".">> :> "I")
    @@ (<<".", "-", "-", "-">> :> "J")
    @@ (<<"-", ".", "-">> :> "K")
    @@ (<<".", "-", ".", ".">> :> "L")
    @@ (<<"-", "-">> :> "M")
    @@ (<<"-", ".">> :> "N")
    @@ (<<"-", "-", "-">> :> "O")
    @@ (<<".", "-", "-", ".">> :> "P")
    @@ (<<"-", "-", ".", "-">> :> "Q")
    @@ (<<".", "-", ".">> :> "R")
    @@ (<<".", ".", ".">> :> "S")
    @@ (<<"-">> :> "T")
    @@ (<<".", ".", "-">> :> "U")
    @@ (<<".", ".", ".", "-">> :> "V")
    @@ (<<".", "-", "-">> :> "W")
    @@ (<<"-", ".", ".", "-">> :> "X")
    @@ (<<"-", ".", "-", "-">> :> "Y")
    @@ (<<"-", "-", ".", ".">> :> "Z")
    @@ (<<"-", "-", "-", "-", "-">> :> "0")
    @@ (<<".", "-", "-", "-", "-">> :> "1")
    @@ (<<".", ".", "-", "-", "-">> :> "2")
    @@ (<<".", ".", ".", "-", "-">> :> "3")
    @@ (<<".", ".", ".", ".", "-">> :> "4")
    @@ (<<".", ".", ".", ".", ".">> :> "5")
    @@ (<<"-", ".", ".", ".", ".">> :> "6")
    @@ (<<"-", "-", ".", ".", ".">> :> "7")
    @@ (<<"-", "-", "-", ".", ".">> :> "8")
    @@ (<<"-", "-", "-", "-", ".">> :> "9")
    @@ (<<".", "-", ".", "-", ".", "-">> :> ".")

upper_map ==
    ("a" :> "A")
    @@ ("b" :> "B")
    @@ ("c" :> "C")
    @@ ("d" :> "D")
    @@ ("e" :> "E")
    @@ ("f" :> "F")
    @@ ("g" :> "G")
    @@ ("h" :> "H")
    @@ ("i" :> "I")
    @@ ("j" :> "J")
    @@ ("k" :> "K")
    @@ ("l" :> "L")
    @@ ("m" :> "M")
    @@ ("n" :> "N")
    @@ ("o" :> "O")
    @@ ("p" :> "P")
    @@ ("q" :> "Q")
    @@ ("r" :> "R")
    @@ ("s" :> "S")
    @@ ("t" :> "T")
    @@ ("u" :> "U")
    @@ ("v" :> "V")
    @@ ("w" :> "W")
    @@ ("x" :> "X")
    @@ ("y" :> "Y")
    @@ ("z" :> "Z")

(* ------------------------------ helpers -------------------------------- *)
Rep(v, n) == [i \in 1..n |-> v]

Abs(x) == IF x < 0 THEN -x ELSE x

Min2(a, b) == IF a < b THEN a ELSE b

RECURSIVE SeqSum(_)
SeqSum(s) == IF s = <<>> THEN 0 ELSE Head(s) + SeqSum(Tail(s))

SeqMax(s) == CHOOSE m \in {s[i] : i \in 1..Len(s)} : \A j \in 1..Len(s) : s[j] <= m

Range(s) == {s[i] : i \in 1..Len(s)}

(* ------------------------------ encoder -------------------------------- *)
upper(ch) == IF ch \in DOMAIN upper_map THEN upper_map[ch] ELSE ch

dot == Rep(TONE, (SampleRate * DOT_MS) \div 1000)
dash == Rep(TONE, (SampleRate * DASH_MS) \div 1000)
intra == Rep(0, (SampleRate * 1) \div 10)
inter_char == Rep(0, (SampleRate * 3) \div 10)
inter_word == Rep(0, (SampleRate * 7) \div 10)

RECURSIVE symbol_pieces(_, _)
symbol_pieces(seq, i) ==
    IF i > Len(seq) THEN <<>>
    ELSE (IF seq[i] = "." THEN dot ELSE IF seq[i] = "-" THEN dash ELSE <<>>)
         \o (IF i # Len(seq) THEN intra ELSE <<>>)
         \o symbol_pieces(seq, i + 1)

RECURSIVE text_to_morse_audio_array(_)
text_to_morse_audio_array(text) ==
    IF text = <<>> THEN <<>>
    ELSE LET ch == Head(text)
             up == upper(ch)
             rest == text_to_morse_audio_array(Tail(text))
         IN  IF ch = " " THEN inter_word \o rest
             ELSE IF up \notin DOMAIN morse_code THEN rest
             ELSE symbol_pieces(morse_code[up], 1) \o inter_char \o rest

(* ---------------- the script encoder (morse_encoder.py) ---------------- *)
(* the table of lines 22-34; the key '"' is written twice and keeps its   *)
(* second value                                                            *)
ENCODER_MORSE_CODE_DICT ==
    ("A" :> <<".", "-">>)
    @@ ("B" :> <<"-", ".", ".", ".">>)
    @@ ("C" :> <<"-", ".", "-", ".">>)
    @@ ("D" :> <<"-", ".", ".">>)
    @@ ("E" :> <<".">>)
    @@ ("F" :> <<".", ".", "-", ".">>)
    @@ ("G" :> <<"-", "-", ".">>)
    @@ ("H" :> <<".", ".", ".", ".">>)
    @@ ("I" :> <<".", ".">>)
    @@ ("J" :> <<".", "-", "-", "-">>)
    @@ ("K" :> <<"-", ".", "-">>)
    @@ ("L" :> <<".", "-", ".", ".">>)
    @@ ("M" :> <<"-", "-">>)
    @@ ("N" :> <<"-", ".">>)
    @@ ("O" :> <<"-", "-", "-">>)
    @@ ("P" :> <<".", "-", "-", ".">>)
    @@ ("Q" :> <<"-", "-", ".", "-">>)
    @@ ("R" :> <<".", "-", ".">>)
    @@ ("S" :> <<".", ".", ".">>)
    @@ ("T" :> <<"-">>)
    @@ ("U" :> <<".", ".", "-">>)
    @@ ("V" :> <<".", ".", ".", "-">>)
    @@ ("W" :> <<".", "-", "-">>)
    @@ ("X" :> <<"-", ".", ".", "-">>)
    @@ ("Y" :> <<"-", ".", "-", "-">>)
    @@ ("Z" :> <<"-", "-", ".", ".">>)
    @@ ("0" :> <<"-", "-", "-", "-", "-">>)
    @@ ("1" :> <<".", "-", "-", "-", "-">>)
    @@ ("2" :> <<".", ".", "-", "-", "-">>)
    @@ ("3" :> <<".", ".", ".", "-", "-">>)
    @@ ("4" :> <<".", ".", ".", ".", "-">>)
    @@ ("5" :> <<".", ".", ".", ".", ".">>)
    @@ ("6" :> <<"-", ".", ".", ".", ".">>)
    @@ ("7" :> <<"-", "-", ".", ".", ".">>)
    @@ ("8" :> <<"-", "-", "-", ".", ".">>)
    @@ ("9" :> <<"-", "-", "-", "-", ".">>)
    @@ ("." :> <<".", "-", ".", "-", ".", "-">>)
    @@ ("," :> <<"-", "-", ".", ".", "-", "-">>)
    @@ ("?" :> <<".", ".", "-", "-", ".", ".">>)
    @@ ("'" :> <<".", "-", "-", "-", "-", ".">>)
    @@ ("\"" :> <<".", ".", "-", ".", ".", "-">>)
    @@ ("!" :> <<"-", ".", "-", ".", "-", "-">>)
    @@ ("/" :> <<"-", ".", ".", "-", ".">>)
    @@ ("(" :> <<"-", ".", "-", ".", "-", ".">>)
    @@ (")" :> <<"-", ".", "-", "-", ".", "-">>)
    @@ ("&" :> <<".", "-", ".", ".", ".">>)
    @@ (":" :> <<"-", "-", "-", ".", ".", ".">>)
    @@ (";" :> <<"-", ".", "-", ".", "-", ".">>)
    @@ ("=" :> <<"-", ".", ".", ".", "-">>)
    @@ ("+" :> <<".", "-", ".", "-", ".">>)
    @@ ("-" :> <<"-", ".", ".", ".", ".", "-">>)
    @@ ("_" :> <<".", ".", "-", "-", ".", "-">>)
    @@ ("$" :> <<".", ".", ".", "-", ".", ".", "-">>)
    @@ ("@" :> <<".", "-", "-", ".", "-", ".">>)
    @@ (" " :> <<"/">>)

(* " ".join(strs) as a sequence of one-character strings *)
RECURSIVE join_chars(_)
join_chars(strs) ==
    IF strs = <<>> THEN <<>>
    ELSE IF Len(strs) = 1 THEN strs[1]
    ELSE strs[1] \o <<" ">> \o join_chars(Tail(strs))

(* str.split(" ") of a sequence of one-character strings *)
RECURSIVE str_split(_)
str_split(s) ==
    IF s = <<>> THEN <<<<>>>>
    ELSE LET rest == str_split(Tail(s))
         IN  IF Head(s) = " " THEN <<<<>>>> \o rest
             ELSE <<(<<Head(s)>> \o rest[1])>> \o Tail(rest)

(* text_to_morse of morse_encoder.py: the blank is a key of the table, so *)
(* the first branch takes it and the elif of line 45 is never reached     *)
RECURSIVE encoder_elements(_)
encoder_elements(text) ==
    IF text = <<>> THEN <<>>
    ELSE LET char == upper(Head(text))
             rest == encoder_elements(Tail(text))
         IN  IF char \in DOMAIN ENCODER_MORSE_CODE_DICT
             THEN <<ENCODER_MORSE_CODE_DICT[char]>> \o rest
             ELSE rest

encoder_text_to_morse(text) == join_chars(encoder_elements(text))

dot_wave == Rep(TONE, SampleRate \div 10)
dash_wave == Rep(TONE, (SampleRate * 3) \div 10)
silence_intra == Rep(0, SampleRate \div 10)
silence_inter == Rep(0, (SampleRate * 3) \div 10)
silence_word == Rep(0, (SampleRate * 7) \div 10)

RECURSIVE element_audio(_, _)
element_audio(element, j) ==
    IF j > Len(element) THEN <<>>
    ELSE (IF element[j] = "." THEN dot_wave
          ELSE IF element[j] = "-" THEN dash_wave ELSE <<>>)
         \o (IF j < Len(element) THEN silence_intra ELSE <<>>)
         \o element_audio(element, j + 1)

RECURSIVE elements_audio(_, _)
elements_audio(elements, i) ==
    IF i > Len(elements) THEN <<>>
    ELSE (IF elements[i] = <<"/">> THEN silence_word
          ELSE IF elements[i] = <<>> THEN <<>>
          ELSE element_audio(elements[i], 1)
               \o (IF i < Len(elements) /\ elements[i + 1] # <<"/">>
                   THEN silence_inter ELSE <<>>))
         \o elements_audio(elements, i + 1)

(* the tone keeps the amplitude TONE; the scaling to 0.9 of the peak is   *)
(* not modelled                                                            *)
generate_morse_audio(morse) == elements_audio(str_split(morse), 1)

(* ------------------------ signal conditioning -------------------------- *)
(* band limits in half-hertz (twice the value in Hz), lines 93-98 *)
band_limits2(peak_freq, sample_rate) ==
    LET lowcut2 == IF 2 * (peak_freq - 100) <= 100 THEN 100 ELSE 2 * (peak_freq - 100)
        highcut2 == IF 2 * (peak_freq + 100) >= sample_rate
                    THEN sample_rate - 200 ELSE 2 * (peak_freq + 100)
    IN  [low2 |-> lowcut2, high2 |-> highcut2]

band_invalid(peak_freq, sample_rate) ==
    LET b == band_limits2(peak_freq, sample_rate)
    IN  b.low2 >= b.high2 \/ b.high2 >= sample_rate

(* the zero-phase Butterworth output is not computed; the branch is taken *)
(* only for sample rates of 300 Hz and more                               *)
filtfilt(d) == d

(* the detected peak lies in [0, sample_rate / 2); for every such peak the *)
(* band is invalid at the modelled rate and the input is returned          *)
bandpass_filter_signal(d, sample_rate) ==
    IF \A peak_freq \in 0..(sample_rate \div 2) : band_invalid(peak_freq, sample_rate)
    THEN d
    ELSE filtfilt(d)

(* int(0.01 * sample_rate), at least 1 (decode.py line 392) *)
window_size(sample_rate) ==
    IF sample_rate \div 100 < 1 THEN 1 ELSE sample_rate \div 100

(* np.hanning(M) for the window lengths whose weights are integers; its *)
(* sum is 0 for M = 2 and 1 for M = 1 and M = 3, so that the normalised *)
(* window equals the window                                              *)
np_hanning(M) ==
    CASE M = 1 -> <<1>>
      [] M = 2 -> <<0, 0>>
      [] M = 3 -> <<0, 1, 0>>

(* np.convolve(a, v, mode = "full")[k], k counted from 0 *)
convolve_full(a, v, k) ==
    SeqSum([i \in 1..Len(a) |->
              IF k - (i - 1) >= 0 /\ k - (i - 1) < Len(v)
              THEN a[i] * v[k - (i - 1) + 1] ELSE 0])

(* np.convolve(a, v, mode = "same"): the centred max(len(a), len(v)) *)
(* entries of the full convolution                                    *)
np_convolve_same(a, v) ==
    LET longer == IF Len(a) >= Len(v) THEN Len(a) ELSE Len(v)
        shorter == Min2(Len(a), Len(v))
        start == (shorter - 1) - (shorter \div 2)
    IN  [k \in 1..longer |-> convolve_full(a, v, (k - 1) + start)]

(* np.sqrt of a perfect square *)
np_sqrt(x) == CHOOSE r \in 0..x : r * r = x

smoothed_power(data, window_length) ==
    IF Len(data) = 0 THEN <<>>
    ELSE LET squared == [i \in 1..Len(data) |-> data[i] * data[i]]
             window == np_hanning(window_length)
         IN  IF SeqSum(window) = 0 THEN Rep(0, Len(data))
             ELSE LET smoothed == np_convolve_same(squared, window)
                  IN  [i \in 1..Len(smoothed) |-> np_sqrt(smoothed[i])]

(* variant: the threshold is max instead of 0.5 * max *)
squared_signal_full_max(data) ==
    IF Len(data) = 0 THEN [square_wave |-> <<>>, threshold2 |-> 0]
    ELSE LET max_val == SeqMax(data)
         IN  IF max_val = 0
             THEN [square_wave |-> Rep(0, Len(data)), threshold2 |-> 0]
             ELSE [square_wave |-> [i \in 1..Len(data) |->
                                      IF data[i] > max_val THEN 1 ELSE 0],
                   threshold2 |-> 2 * max_val]

(* threshold2 is twice the threshold, so that 0.5 * max stays an integer *)
squared_signal(data) ==
    IF Len(data) = 0 THEN [square_wave |-> <<>>, threshold2 |-> 0]
    ELSE LET max_val == SeqMax(data)
         IN  IF max_val = 0
             THEN [square_wave |-> Rep(0, Len(data)), threshold2 |-> 0]
             ELSE [square_wave |-> [i \in 1..Len(data) |->
                                      IF 2 * data[i] > max_val THEN 1 ELSE 0],
                   threshold2 |-> max_val]

(* -------------------------- duration extractor ------------------------- *)
(* indices are 0-based as in the source: square_wave[i] is sq[i + 1]      *)
Idx(n) == [i \in 1..n |-> i - 1]

np_diff(sq) == [i \in 1..(Len(sq) - 1) |-> sq[i + 1] - sq[i]]

edges(sq, d) == SelectSeq(Idx(Len(sq) - 1), LAMBDA i : np_diff(sq)[i + 1] = d)

Take(s, n) == SubSeq(s, 1, n)

(* variant: no virtual falling edge when the sequence ends on *)
edge_pairs_no_virtual_fall(sq) ==
    LET starts_on == sq[1] = 1
        rising0 == edges(sq, 1)
        falling1 == edges(sq, -1)
        rising1 == IF starts_on THEN <<-1>> \o rising0 ELSE rising0
        drop == ~starts_on /\ Len(rising1) > 0 /\ Len(falling1) > 0
                /\ falling1[1] < rising1[1]
        falling2 == IF drop THEN Tail(falling1) ELSE falling1
        min_len == Min2(Len(rising1), Len(falling2))
    IN  [rising_idx |-> Take(rising1, min_len), falling_idx |-> Take(falling2, min_len)]

edge_pairs(sq) ==
    LET n == Len(sq)
        starts_on == sq[1] = 1
        ends_on == sq[n] = 1
        rising0 == edges(sq, 1)
        falling0 == edges(sq, -1)
        rising1 == IF starts_on THEN <<-1>> \o rising0 ELSE rising0
        falling1 == IF ends_on THEN falling0 \o <<n - 1>> ELSE falling0
        drop == ~starts_on /\ Len(rising1) > 0 /\ Len(falling1) > 0
                /\ falling1[1] < rising1[1]
        falling2 == IF drop THEN Tail(falling1) ELSE falling1
        min_len == Min2(Len(rising1), Len(falling2))
    IN  [rising_idx |-> Take(rising1, min_len), falling_idx |-> Take(falling2, min_len)]

on_samples_raw(sq) ==
    IF Len(sq) = 0 THEN <<>>
    ELSE LET p == edge_pairs(sq)
         IN  [i \in 1..Len(p.rising_idx) |-> p.falling_idx[i] - p.rising_idx[i]]

(* variant: the silence is counted with both of its edges *)
off_samples_raw_inclusive(sq) ==
    IF Len(sq) = 0 THEN <<>>
    ELSE LET p == edge_pairs(sq)
             m == Len(p.rising_idx)
         IN  IF m > 1
             THEN [i \in 1..(m - 1) |-> p.rising_idx[i + 1] - p.falling_idx[i] + 1]
             ELSE <<>>

off_samples_raw(sq) ==
    IF Len(sq) = 0 THEN <<>>
    ELSE LET p == edge_pairs(sq)
             m == Len(p.rising_idx)
         IN  IF m > 1 THEN [i \in 1..(m - 1) |-> p.rising_idx[i + 1] - p.falling_idx[i]]
             ELSE <<>>

positive(s) == SelectSeq(s, LAMBDA x : x > 0)

(* variant: off-durations subtracted the wrong way round and returned *)
(* without the > 0 filter                                              *)
calculate_on_off_samples_unfiltered(sq) ==
    [on |-> on_samples_raw(sq),
     off |-> [i \in 1..Len(off_samples_raw(sq)) |-> 0 - off_samples_raw(sq)[i]]]

calculate_on_off_samples(sq) ==
    [on |-> positive(on_samples_raw(sq)), off |-> positive(off_samples_raw(sq))]

(* ------------------------------- k-means ------------------------------- *)
(* sklearn.cluster.KMeans(n_clusters = k, random_state = 0, n_init = 10)   *)
(* on 1-D data.  The fit is a function of (data, k, random_state); which   *)
(* converged partition the seeded initialisations end in, and which        *)
(* cluster gets which label id, is what the seed decides.  A converged     *)
(* result is a partition of the distinct values into k non-empty clusters  *)
(* in which every point is nearest to its own cluster's mean.              *)
RECURSIVE SortSet(_)
SortSet(S) ==
    IF S = {} THEN <<>>
    ELSE LET m == CHOOSE x \in S : \A y \in S : x <= y
         IN  <<m>> \o SortSet(S \ {m})

np_unique(s) == SortSet(Range(s))

(* a centre is the rational <<sum, count>> *)
centre_lt(a, b) == a[1] * b[2] < b[1] * a[2]

centre_of(data, f, r) ==
    LET members == SelectSeq(data, LAMBDA x : f[x] = r)
    IN  <<SeqSum(members), Len(members)>>

(* |x - a| <= |x - b| for centres a, b *)
not_farther(x, a, b) == Abs(x * a[2] - a[1]) * b[2] <= Abs(x * b[2] - b[1]) * a[2]

Partitions(data, k) ==
    {f \in [Range(data) -> 0..(k - 1)] :
        /\ \A r \in 0..(k - 1) : \E x \in Range(data) : f[x] = r
        /\ \A x, y \in Range(data) : x < y => f[x] <= f[y]}

Converged(data, k, f) ==
    \A x \in Range(data) : \A r \in 0..(k - 1) :
        not_farther(x, centre_of(data, f, f[x]), centre_of(data, f, r))

RECURSIVE pow3(_)
pow3(n) == IF n = 0 THEN 1 ELSE 3 * pow3(n - 1)

fit_code(data, f) ==
    LET u == np_unique(data)
    IN  SeqSum([j \in 1..Len(u) |-> f[u[j]] * pow3(j - 1)])

KMeans(data, k, random_state) ==
    LET fits == {f \in Partitions(data, k) : Converged(data, k, f)}
        codes == SortSet({fit_code(data, f) : f \in fits})
        code == codes[(random_state.pick % Len(codes)) + 1]
        f == CHOOSE g \in fits : fit_code(data, g) = code
        id(r) == IF random_state.flip = 1 THEN k - 1 - r ELSE r
        rank(i) == IF random_state.flip = 1 THEN k - 1 - i ELSE i
    IN  [cluster_centers_ |-> [i \in 1..k |-> centre_of(data, f, rank(i - 1))],
         labels_ |-> [i \in 1..Len(data) |-> id(f[data[i]])]]

(* np.argsort of the centres: 0-based cluster ids, smallest centre first *)
np_argsort(centres) ==
    LET before(j, i) == centre_lt(centres[j], centres[i])
                        \/ (~centre_lt(centres[i], centres[j]) /\ j < i)
    IN  [r \in 1..Len(centres) |->
            (CHOOSE i \in 1..Len(centres) :
                Cardinality({j \in 1..Len(centres) : before(j, i)}) = r - 1) - 1]

np_argmin(centres) == np_argsort(centres)[1]

(* variant: the index of the last centre instead of the largest one *)
np_argmax_last(centres) == Len(centres) - 1

np_argmax(centres) ==
    (CHOOSE i \in 1..Len(centres) :
        /\ \A j \in 1..Len(centres) : ~centre_lt(centres[i], centres[j])
        /\ \A j \in 1..(i - 1) : centre_lt(centres[j], centres[i])) - 1

(* ---------------------------- symbol classifier ------------------------ *)
(* variant: the dash label is the argmin, the dot label the argmax *)
identify_dots_dashes_swapped(on_samples, sample_rate, random_state) ==
    IF Len(on_samples) = 0 THEN <<>>
    ELSE IF Min2(2, Len(np_unique(on_samples))) < 2
    THEN IF centre_lt(<<SeqSum(on_samples), Len(on_samples)>>, <<sample_rate \div 10, 1>>)
         THEN Rep(".", Len(on_samples))
         ELSE Rep("-", Len(on_samples))
    ELSE LET kmeans_on == KMeans(on_samples, 2, random_state)
             dash_cluster_label == np_argmin(kmeans_on.cluster_centers_)
         IN  [i \in 1..Len(on_samples) |->
                IF kmeans_on.labels_[i] = dash_cluster_label THEN "-" ELSE "."]

identify_dots_dashes(on_samples, sample_rate, random_state) ==
    IF Len(on_samples) = 0 THEN <<>>
    ELSE IF Min2(2, Len(np_unique(on_samples))) < 2
    THEN LET threshold_samples == sample_rate \div 10
             (* np.mean of equal values, as <<sum, count>> *)
             avg_dur == <<SeqSum(on_samples), Len(on_samples)>>
         IN  IF centre_lt(avg_dur, <<threshold_samples, 1>>)
             THEN Rep(".", Len(on_samples))
             ELSE Rep("-", Len(on_samples))
    ELSE LET kmeans_on == KMeans(on_samples, 2, random_state)
             dot_cluster_label == np_argmin(kmeans_on.cluster_centers_)
             dash_cluster_label == np_argmax(kmeans_on.cluster_centers_)
         IN  [i \in 1..Len(on_samples) |->
                IF kmeans_on.labels_[i] = dash_cluster_label THEN "-" ELSE "."]

(* ----------------------------- space classifier ------------------------ *)
(* variant: >= instead of > against the word threshold *)
promote_ge(space_types, off_samples, intra_center) ==
    [i \in 1..Len(space_types) |->
        IF space_types[i] = INTER_LETTER_SPACE
           /\ off_samples[i] * intra_center[2] >= 5 * intra_center[1]
        THEN INTER_WORD_SPACE ELSE space_types[i]]

promote(space_types, off_samples, intra_center) ==
    [i \in 1..Len(space_types) |->
        IF space_types[i] = INTER_LETTER_SPACE
           /\ off_samples[i] * intra_center[2] > 5 * intra_center[1]
        THEN INTER_WORD_SPACE ELSE space_types[i]]

(* variant: the cluster ids are taken as already ordered by centre *)
identify_spaces_unsorted(off_samples, random_state) ==
    IF Len(off_samples) = 0
    THEN [space_types |-> <<>>, centers |-> <<>>, space_labels |-> <<-1, -1, -1>>]
    ELSE LET n_clusters_off == Min2(3, Len(np_unique(off_samples)))
             kmeans_off == KMeans(off_samples, n_clusters_off, random_state)
             cluster_centers_off == kmeans_off.cluster_centers_
             sorted_center_indices == [r \in 1..n_clusters_off |-> r - 1]
             sorted_centers == [r \in 1..n_clusters_off |->
                                  cluster_centers_off[sorted_center_indices[r] + 1]]
             intra_label == sorted_center_indices[1]
             letter_label == IF n_clusters_off >= 2 THEN sorted_center_indices[2] ELSE -1
             word_label == IF n_clusters_off >= 3 THEN sorted_center_indices[3] ELSE -1
             label_to_space_type(label) ==
                 IF word_label # -1 /\ label = word_label THEN INTER_WORD_SPACE
                 ELSE IF letter_label # -1 /\ label = letter_label THEN INTER_LETTER_SPACE
                 ELSE IF label = intra_label THEN INTRA_CHAR_SPACE
                 ELSE -1
             space_types0 == [i \in 1..Len(off_samples) |->
                                label_to_space_type(kmeans_off.labels_[i])]
         IN  [space_types |-> IF n_clusters_off = 2
                              THEN promote(space_types0, off_samples, sorted_centers[1])
                              ELSE space_types0,
              centers |-> sorted_centers,
              space_labels |-> <<intra_label, letter_label, word_label>>]

identify_spaces(off_samples, random_state) ==
    IF Len(off_samples) = 0
    THEN [space_types |-> <<>>, centers |-> <<>>, space_labels |-> <<-1, -1, -1>>]
    ELSE LET n_clusters_off == Min2(3, Len(np_unique(off_samples)))
             kmeans_off == KMeans(off_samples, n_clusters_off, random_state)
             cluster_centers_off == kmeans_off.cluster_centers_
             sorted_center_indices == np_argsort(cluster_centers_off)
             sorted_centers == [r \in 1..n_clusters_off |->
                                  cluster_centers_off[sorted_center_indices[r] + 1]]
             intra_label == sorted_center_indices[1]
             letter_label == IF n_clusters_off >= 2 THEN sorted_center_indices[2] ELSE -1
             word_label == IF n_clusters_off >= 3 THEN sorted_center_indices[3] ELSE -1
             label_to_space_type(label) ==
                 IF word_label # -1 /\ label = word_label THEN INTER_WORD_SPACE
                 ELSE IF letter_label # -1 /\ label = letter_label THEN INTER_LETTER_SPACE
                 ELSE IF label = intra_label THEN INTRA_CHAR_SPACE
                 ELSE -1
             space_types0 == [i \in 1..Len(off_samples) |->
                                label_to_space_type(kmeans_off.labels_[i])]
         IN  [space_types |-> IF n_clusters_off = 2
                              THEN promote(space_types0, off_samples, sorted_centers[1])
                              ELSE space_types0,
              centers |-> sorted_centers,
              space_labels |-> <<intra_label, letter_label, word_label>>]

(* -------------------------------- grouper ------------------------------ *)
(* np.nonzero(cond)[0] + 1 over a 0-based array: 1-based positions here *)
nonzero_ne_plus1(s, v) == SelectSeq([i \in 1..Len(s) |-> i], LAMBDA i : s[i] # v)

nonzero_eq_plus1(s, v) == SelectSeq([i \in 1..Len(s) |-> i], LAMBDA i : s[i] = v)

(* s[lo:hi] with Python's clamping *)
(* variant: every piece starts one element late *)
slice_late(s, lo, hi) ==
    LET h == Min2(hi, Len(s))
    IN  IF lo >= h THEN <<>> ELSE SubSeq(s, lo + 2, h)

slice(s, lo, hi) ==
    LET h == Min2(hi, Len(s))
    IN  IF lo >= h THEN <<>> ELSE SubSeq(s, lo + 1, h)

np_split(s, indices) ==
    [j \in 1..(Len(indices) + 1) |->
        slice(s, IF j = 1 THEN 0 ELSE indices[j - 1],
                 IF j = Len(indices) + 1 THEN Len(s) ELSE indices[j])]

non_empty(s) == SelectSeq(s, LAMBDA x : x # <<>>)

(* variant: the re-clustering is seeded differently from identify_spaces *)
group_morse_words_reseeded(dash_dot_characters, off_samples, space_labels, random_state) ==
    LET intra_label == space_labels[1]
        word_label == space_labels[3]
    IN  IF Len(dash_dot_characters) = 0 THEN [raised |-> FALSE, words |-> <<>>]
        ELSE IF intra_label = -1 THEN [raised |-> TRUE, words |-> <<>>]
        ELSE IF Len(off_samples) = 0 THEN [raised |-> TRUE, words |-> <<>>]
        ELSE LET n_clust0 == Len(SelectSeq(space_labels, LAMBDA x : x # -1))
                 n_clust == IF n_clust0 = 0 THEN 1 ELSE n_clust0
                 km == KMeans(off_samples, n_clust,
                              [pick |-> random_state.pick + 1,
                               flip |-> random_state.flip])
                 labels == km.labels_
                 sorted_idx == np_argsort(km.cluster_centers_)
                 current_intra_label == sorted_idx[1]
                 char_break_indices ==
                     nonzero_ne_plus1(labels, current_intra_label)
                 breaks == SelectSeq(labels, LAMBDA l : l # current_intra_label)
                 word_break_indices_in_chars ==
                     IF word_label # -1 /\ Len(sorted_idx) >= 3
                     THEN nonzero_eq_plus1(breaks, sorted_idx[3])
                     ELSE IF word_label # -1 /\ Len(sorted_idx) = 2
                     THEN nonzero_eq_plus1(breaks, sorted_idx[2])
                     ELSE <<>>
                 morse_characters ==
                     non_empty(np_split(dash_dot_characters, char_break_indices))
             IN  [raised |-> FALSE,
                  words |-> non_empty(np_split(morse_characters,
                                               word_break_indices_in_chars))]

(* a character "".join(arr) is kept as its sequence of one-symbol strings; *)
(* raised = TRUE is the UnboundLocalError of word_break_indices_in_chars   *)
group_morse_words(dash_dot_characters, off_samples, space_labels, random_state) ==
    LET intra_label == space_labels[1]
        word_label == space_labels[3]
    IN  IF Len(dash_dot_characters) = 0 THEN [raised |-> FALSE, words |-> <<>>]
        ELSE IF intra_label = -1 THEN [raised |-> TRUE, words |-> <<>>]
        ELSE IF Len(off_samples) = 0 THEN [raised |-> TRUE, words |-> <<>>]
        ELSE LET n_clust0 == Len(SelectSeq(space_labels, LAMBDA x : x # -1))
                 n_clust == IF n_clust0 = 0 THEN 1 ELSE n_clust0
                 km == KMeans(off_samples, n_clust, random_state)
                 labels == km.labels_
                 sorted_idx == np_argsort(km.cluster_centers_)
                 current_intra_label == sorted_idx[1]
                 char_break_indices ==
                     nonzero_ne_plus1(labels, current_intra_label)
                 breaks == SelectSeq(labels, LAMBDA l : l # current_intra_label)
                 word_break_indices_in_chars ==
                     IF word_label # -1 /\ Len(sorted_idx) >= 3
                     THEN nonzero_eq_plus1(breaks, sorted_idx[3])
                     ELSE IF word_label # -1 /\ Len(sorted_idx) = 2
                     THEN nonzero_eq_plus1(breaks, sorted_idx[2])
                     ELSE <<>>
                 morse_characters ==
                     non_empty(np_split(dash_dot_characters, char_break_indices))
             IN  [raised |-> FALSE,
                  words |-> non_empty(np_split(morse_characters,
                                               word_break_indices_in_chars))]

(* ------------------------------ translator ----------------------------- *)
RECURSIVE join(_, _)
join(sep, strs) ==
    IF strs = <<>> THEN ""
    ELSE IF Len(strs) = 1 THEN strs[1]
    ELSE strs[1] \o sep \o join(sep, Tail(strs))

(* variant: a character that is not in the table is dropped *)
dict_get_drop(morse_char) ==
    IF morse_char \in DOMAIN MORSE_CODE_DICT THEN MORSE_CODE_DICT[morse_char] ELSE ""

dict_get(morse_char) ==
    IF morse_char \in DOMAIN MORSE_CODE_DICT THEN MORSE_CODE_DICT[morse_char] ELSE "?"

translate_morse(morse_words) ==
    join(" ", [w \in 1..Len(morse_words) |->
                 join("", [c \in 1..Len(morse_words[w]) |-> dict_get(morse_words[w][c])])])

morse_repr_of(morse_words) ==
    join(" / ", [w \in 1..Len(morse_words) |->
                   join(" ", [c \in 1..Len(morse_words[w]) |-> join("", morse_words[w][c])])])

(* ----------------------------- visualization --------------------------- *)
downsample_for_viz(arr, target_len) ==
    IF Len(arr) <= target_len THEN arr
    ELSE LET step == Len(arr) \div target_len
             strided == [j \in 1..((Len(arr) + step - 1) \div step) |-> arr[(j - 1) * step + 1]]
         IN  Take(strided, Min2(target_len, Len(strided)))

(* arr / max as rationals <<value, max>> *)
normalize_for_viz(arr) ==
    IF Len(arr) = 0 THEN arr
    ELSE LET max_val == SeqMax([i \in 1..Len(arr) |-> Abs(arr[i])])
         IN  IF max_val = 0 THEN arr ELSE [i \in 1..Len(arr) |-> <<arr[i], max_val>>]

zip_records(durations, labels) ==
    [i \in 1..Min2(Len(durations), Len(labels)) |->
        [duration |-> durations[i], label |-> labels[i]]]

(* --------------------------- inputs of a run --------------------------- *)
Amps == {-1, 0, 2}
OnVals == {1, 2, 3}
SepOnVals == {1, 2, 6}
OffVals == {1, 2, 3, 5, 7}
MsgChars == {"E", "T", "A", "n", " "}
FixedMessages == {<<"S", "O", "S">>, <<"A", "n", " ", "T">>}

SeqsUpTo(S, n) == UNION {[1..m -> S] : m \in 0..n}

RawBuffers == SeqsUpTo(Amps, MaxLen)

single_spaced(m) ==
    /\ m[1] # " " /\ m[Len(m)] # " "
    /\ \A i \in 1..(Len(m) - 1) : ~(m[i] = " " /\ m[i + 1] = " ")

Messages ==
    {m \in SeqsUpTo(MsgChars, MaxMsgLen) : Len(m) > 0 /\ single_spaced(m)}
    \cup FixedMessages

RECURSIVE Bursts(_, _)
Bursts(on, off) ==
    IF on = <<>> THEN <<>>
    ELSE Rep(TONE, Head(on))
         \o (IF off = <<>> THEN <<>> ELSE Rep(0, Head(off)))
         \o Bursts(Tail(on), IF off = <<>> THEN <<>> ELSE Tail(off))

KeyedOn(n) == [i \in 1..n |-> IF i % 2 = 1 THEN 1 ELSE 3]

(* tone bursts of varied lengths, separated by one sample of silence *)
OnBuffers ==
    UNION {{Bursts(on, Rep(1, n - 1)) : on \in [1..n -> OnVals]} : n \in 1..MaxRuns}
    \cup {Bursts(on, <<1, 1>>) : on \in [1..3 -> SepOnVals]}

(* keyed dots and dashes separated by silences of varied lengths *)
GapBuffers ==
    UNION {{Bursts(KeyedOn(n), off) : off \in [1..(n - 1) -> OffVals]}
           : n \in 1..MaxRuns}

BurstBuffers == OnBuffers \cup GapBuffers

(* sample rates of a decoder run: the rate of the encoder and three times *)
(* that rate, at which a dot unit is three samples                        *)
DecodeRates == {SampleRate, 3 * SampleRate}

(* sample rates at which the envelope window is 1, 2 and 3 samples *)
EnvelopeRates == {SampleRate, 200, 300}

(* sample rates at which the band-pass design is computed *)
BandRates == {SampleRate, 300, 500, 600}

NoBand == [bypass |-> TRUE, low2 |-> 0, high2 |-> 0]

Seeds == [pick : 0..MaxPick, flip : {0, 1}]

(* ------------------------------ the run -------------------------------- *)
VARIABLES pc, sample_rate, peak_freq, band, rng, msg, data, envelope, square_wave, threshold2, on_dur, off_dur,
          dash_dot_chars, space_types, space_labels, morse_words, final_text,
          morse_repr, clustering_data, stdout, exit_code

vars == <<pc, sample_rate, peak_freq, band, rng, msg, data, envelope, square_wave, threshold2, on_dur, off_dur,
          dash_dot_chars, space_types, space_labels, morse_words, final_text,
          morse_repr, clustering_data, stdout, exit_code>>

Init ==
    /\ pc = "read"
    /\ rng \in Seeds
    /\ \/ msg = <<>> /\ data \in RawBuffers \cup GapBuffers /\ sample_rate = SampleRate
       \/ msg = <<>> /\ data \in OnBuffers /\ sample_rate \in DecodeRates
       \/ msg \in Messages /\ data = text_to_morse_audio_array(msg)
          /\ sample_rate = SampleRate
    /\ peak_freq = 0 /\ band = NoBand
    /\ envelope = <<>> /\ square_wave = <<>> /\ threshold2 = 0
    /\ on_dur = <<>> /\ off_dur = <<>>
    /\ dash_dot_chars = <<>> /\ space_types = <<>> /\ space_labels = <<-1, -1, -1>>
    /\ morse_words = <<>> /\ final_text = "" /\ morse_repr = ""
    /\ clustering_data = [on |-> <<>>, off |-> <<>>]
    /\ stdout = <<>> /\ exit_code = -1

visualization ==
    [audio |-> downsample_for_viz(bandpass_filter_signal(data, sample_rate), 2000),
     envelope |-> downsample_for_viz(normalize_for_viz(envelope), 2000),
     square |-> downsample_for_viz(square_wave, 2000),
     threshold |-> IF Len(envelope) > 0 /\ SeqMax(envelope) > 0
                   THEN <<threshold2, 2 * SeqMax(envelope)>> ELSE <<1, 2>>]

EmptyFile ==
    /\ pc = "read" /\ Len(data) = 0
    /\ stdout' = Append(stdout, [error |-> "Empty file"])
    /\ exit_code' = 0
    /\ pc' = "done"
    /\ UNCHANGED <<sample_rate, peak_freq, band, rng, msg, data, envelope, square_wave, threshold2, on_dur, off_dur,
                   dash_dot_chars, space_types, space_labels, morse_words, final_text,
                   morse_repr, clustering_data>>

Envelope ==
    /\ pc = "read" /\ Len(data) # 0
    /\ envelope' = smoothed_power(bandpass_filter_signal(data, sample_rate),
                                  window_size(sample_rate))
    /\ pc' = "threshold"
    /\ UNCHANGED <<sample_rate, peak_freq, band, rng, msg, data, square_wave, threshold2, on_dur, off_dur,
                   dash_dot_chars, space_types, space_labels, morse_words, final_text,
                   morse_repr, clustering_data, stdout, exit_code>>

Threshold ==
    /\ pc = "threshold"
    /\ square_wave' = squared_signal(envelope).square_wave
    /\ threshold2' = squared_signal(envelope).threshold2
    /\ pc' = "durations"
    /\ UNCHANGED <<sample_rate, peak_freq, band, rng, msg, data, envelope, on_dur, off_dur,
                   dash_dot_chars, space_types, space_labels, morse_words, final_text,
                   morse_repr, clustering_data, stdout, exit_code>>

Durations ==
    /\ pc = "durations"
    /\ on_dur' = calculate_on_off_samples(square_wave).on
    /\ off_dur' = calculate_on_off_samples(square_wave).off
    /\ pc' = IF Len(on_dur') = 0 THEN "no_signal" ELSE "dots_dashes"
    /\ UNCHANGED <<sample_rate, peak_freq, band, rng, msg, data, envelope, square_wave, threshold2,
                   dash_dot_chars, space_types, space_labels, morse_words, final_text,
                   morse_repr, clustering_data, stdout, exit_code>>

(* variant: the no-signal branch prints its record but does not exit *)
NoSignal_fallthrough ==
    /\ pc = "no_signal"
    /\ stdout' = Append(stdout,
                        [morse |-> "", text |-> "No signal detected",
                         visualization |-> visualization,
                         clustering |-> [on |-> <<>>, off |-> <<>>]])
    /\ pc' = "dots_dashes"
    /\ UNCHANGED <<sample_rate, peak_freq, band, rng, msg, data, envelope, square_wave, threshold2, on_dur, off_dur,
                   dash_dot_chars, space_types, space_labels, morse_words, final_text,
                   morse_repr, clustering_data, exit_code>>

NoSignal ==
    /\ pc = "no_signal"
    /\ stdout' = Append(stdout,
                        [morse |-> "", text |-> "No signal detected",
                         visualization |-> visualization,
                         clustering |-> [on |-> <<>>, off |-> <<>>]])
    /\ exit_code' = 0
    /\ pc' = "done"
    /\ UNCHANGED <<sample_rate, peak_freq, band, rng, msg, data, envelope, square_wave, threshold2, on_dur, off_dur,
                   dash_dot_chars, space_types, space_labels, morse_words, final_text,
                   morse_repr, clustering_data>>

(* variant: the fallback threshold is taken at the encoder's sample rate, *)
(* not at the rate of the file                                            *)
DotsDashes_encoder_rate ==
    /\ pc = "dots_dashes"
    /\ dash_dot_chars' = identify_dots_dashes(on_dur, SampleRate, rng)
    /\ pc' = "spaces"
    /\ UNCHANGED <<sample_rate, peak_freq, band, rng, msg, data, envelope, square_wave, threshold2, on_dur, off_dur,
                   space_types, space_labels, morse_words, final_text,
                   morse_repr, clustering_data, stdout, exit_code>>

DotsDashes ==
    /\ pc = "dots_dashes"
    /\ dash_dot_chars' = identify_dots_dashes(on_dur, sample_rate, rng)
    /\ pc' = "spaces"
    /\ UNCHANGED <<sample_rate, peak_freq, band, rng, msg, data, envelope, square_wave, threshold2, on_dur, off_dur,
                   space_types, space_labels, morse_words, final_text,
                   morse_repr, clustering_data, stdout, exit_code>>

Spaces ==
    /\ pc = "spaces"
    /\ IF Len(off_dur) > 0
       THEN /\ space_types' = identify_spaces(off_dur, rng).space_types
            /\ space_labels' = identify_spaces(off_dur, rng).space_labels
       ELSE /\ space_types' = <<>>
            /\ space_labels' = <<-1, -1, -1>>
    /\ pc' = "group"
    /\ UNCHANGED <<sample_rate, peak_freq, band, rng, msg, data, envelope, square_wave, threshold2, on_dur, off_dur,
                   dash_dot_chars, morse_words, final_text,
                   morse_repr, clustering_data, stdout, exit_code>>

Group ==
    /\ pc = "group"
    /\ LET g == group_morse_words(dash_dot_chars, off_dur, space_labels, rng)
       IN  IF g.raised
           THEN pc' = "except" /\ UNCHANGED morse_words
           ELSE pc' = "translate" /\ morse_words' = g.words
    /\ UNCHANGED <<sample_rate, peak_freq, band, rng, msg, data, envelope, square_wave, threshold2, on_dur, off_dur,
                   dash_dot_chars, space_types, space_labels, final_text,
                   morse_repr, clustering_data, stdout, exit_code>>

Translate ==
    /\ pc = "translate"
    /\ final_text' = translate_morse(morse_words)
    /\ morse_repr' = morse_repr_of(morse_words)
    /\ clustering_data' = [on |-> zip_records(on_dur, dash_dot_chars),
                           off |-> zip_records(off_dur, space_types)]
    /\ pc' = "output"
    /\ UNCHANGED <<sample_rate, peak_freq, band, rng, msg, data, envelope, square_wave, threshold2, on_dur, off_dur,
                   dash_dot_chars, space_types, space_labels, morse_words,
                   stdout, exit_code>>

(* variant: the handler ends the run without a result record *)
Except_crash ==
    /\ pc = "except"
    /\ exit_code' = 1
    /\ pc' = "done"
    /\ UNCHANGED <<sample_rate, peak_freq, band, rng, msg, data, envelope, square_wave, threshold2, on_dur, off_dur,
                   dash_dot_chars, space_types, space_labels, morse_words, final_text,
                   morse_repr, clustering_data, stdout>>

Except ==
    /\ pc = "except"
    /\ final_text' = "Error decoding"
    /\ morse_repr' = ""
    /\ clustering_data' = [on |-> <<>>, off |-> <<>>]
    /\ pc' = "output"
    /\ UNCHANGED <<sample_rate, peak_freq, band, rng, msg, data, envelope, square_wave, threshold2, on_dur, off_dur,
                   dash_dot_chars, space_types, space_labels, morse_words,
                   stdout, exit_code>>

Output ==
    /\ pc = "output"
    /\ stdout' = Append(stdout,
                        [morse |-> morse_repr, text |-> final_text,
                         visualization |-> visualization,
                         clustering |-> clustering_data])
    /\ exit_code' = 0
    /\ pc' = "done"
    /\ UNCHANGED <<sample_rate, peak_freq, band, rng, msg, data, envelope, square_wave, threshold2, on_dur, off_dur,
                   dash_dot_chars, space_types, space_labels, morse_words, final_text,
                   morse_repr, clustering_data>>

(* an exception raised by a call inside the try block (lines 429-445) *)
DecodeRaises ==
    /\ pc \in {"dots_dashes", "spaces", "group", "translate"}
    /\ pc' = "except"
    /\ UNCHANGED <<sample_rate, peak_freq, band, rng, msg, data, envelope, square_wave, threshold2, on_dur, off_dur,
                   dash_dot_chars, space_types, space_labels, morse_words, final_text,
                   morse_repr, clustering_data, stdout, exit_code>>

Next ==
    \/ EmptyFile
    \/ Envelope
    \/ Threshold
    \/ Durations
    \/ NoSignal
    \/ DotsDashes
    \/ Spaces
    \/ Group
    \/ Translate
    \/ Except
    \/ Output

Spec == Init /\ [][Next]_vars

NextFault == Next \/ DecodeRaises

SpecFault == Init /\ [][NextFault]_vars

(* ---------------- the envelope stage on its own ------------------------ *)
(* smoothed_power and squared_signal applied to a non-empty buffer, for    *)
(* window lengths of one, two and three samples                             *)
InitEnvelope ==
    /\ pc = "smoothed_power"
    /\ sample_rate \in EnvelopeRates
    /\ rng \in {[pick |-> 0, flip |-> 0]}
    /\ msg = <<>> /\ data \in RawBuffers /\ Len(data) > 0
    /\ peak_freq = 0 /\ band = NoBand
    /\ envelope = <<>> /\ square_wave = <<>> /\ threshold2 = 0
    /\ on_dur = <<>> /\ off_dur = <<>>
    /\ dash_dot_chars = <<>> /\ space_types = <<>> /\ space_labels = <<-1, -1, -1>>
    /\ morse_words = <<>> /\ final_text = "" /\ morse_repr = ""
    /\ clustering_data = [on |-> <<>>, off |-> <<>>]
    /\ stdout = <<>> /\ exit_code = -1

SmoothedPower ==
    /\ pc = "smoothed_power"
    /\ envelope' = smoothed_power(data, window_size(sample_rate))
    /\ pc' = "squared_signal"
    /\ UNCHANGED <<sample_rate, peak_freq, band, rng, msg, data, square_wave,
                   threshold2, on_dur, off_dur,
                   dash_dot_chars, space_types, space_labels, morse_words, final_text,
                   morse_repr, clustering_data, stdout, exit_code>>

SquaredSignal ==
    /\ pc = "squared_signal"
    /\ square_wave' = squared_signal(envelope).square_wave
    /\ threshold2' = squared_signal(envelope).threshold2
    /\ pc' = "returned"
    /\ UNCHANGED <<sample_rate, peak_freq, band, rng, msg, data, envelope,
                   on_dur, off_dur,
                   dash_dot_chars, space_types, space_labels, morse_words, final_text,
                   morse_repr, clustering_data, stdout, exit_code>>

NextEnvelope == SmoothedPower \/ SquaredSignal

SpecEnvelope == InitEnvelope /\ [][NextEnvelope]_vars

(* ---------------- the band-pass design on its own ----------------------- *)
(* lines 91-114 for a detected peak below the Nyquist frequency             *)
InitBand ==
    /\ pc = "bandpass_filter_signal"
    /\ sample_rate \in BandRates
    /\ peak_freq \in {f \in 0..(sample_rate \div 2) : 2 * f < sample_rate}
    /\ band = NoBand
    /\ rng \in {[pick |-> 0, flip |-> 0]}
    /\ msg = <<>> /\ data = <<TONE, 0>>
    /\ envelope = <<>> /\ square_wave = <<>> /\ threshold2 = 0
    /\ on_dur = <<>> /\ off_dur = <<>>
    /\ dash_dot_chars = <<>> /\ space_types = <<>> /\ space_labels = <<-1, -1, -1>>
    /\ morse_words = <<>> /\ final_text = "" /\ morse_repr = ""
    /\ clustering_data = [on |-> <<>>, off |-> <<>>]
    /\ stdout = <<>> /\ exit_code = -1

(* the early return of line 102 *)
BandBypass ==
    /\ pc = "bandpass_filter_signal"
    /\ band_invalid(peak_freq, sample_rate)
    /\ band' = [bypass |-> TRUE,
                low2 |-> band_limits2(peak_freq, sample_rate).low2,
                high2 |-> band_limits2(peak_freq, sample_rate).high2]
    /\ pc' = "returned"
    /\ UNCHANGED <<sample_rate, peak_freq, rng, msg, data, envelope, square_wave,
                   threshold2, on_dur, off_dur,
                   dash_dot_chars, space_types, space_labels, morse_words, final_text,
                   morse_repr, clustering_data, stdout, exit_code>>

(* the filter design of lines 104-111 *)
BandDesign ==
    /\ pc = "bandpass_filter_signal"
    /\ ~band_invalid(peak_freq, sample_rate)
    /\ band' = [bypass |-> FALSE,
                low2 |-> band_limits2(peak_freq, sample_rate).low2,
                high2 |-> band_limits2(peak_freq, sample_rate).high2]
    /\ pc' = "returned"
    /\ UNCHANGED <<sample_rate, peak_freq, rng, msg, data, envelope, square_wave,
                   threshold2, on_dur, off_dur,
                   dash_dot_chars, space_types, space_labels, morse_words, final_text,
                   morse_repr, clustering_data, stdout, exit_code>>

NextBand == BandBypass \/ BandDesign

SpecBand == InitBand /\ [][NextBand]_vars

(* --------------------- the two encoders on their own ------------------- *)
(* a text is encoded either by encode.py (text_to_morse_audio_array) or   *)
(* by morse_encoder.py (text_to_morse, then generate_morse_audio)         *)
InitEncode ==
    /\ pc \in {"text_to_morse_audio_array", "generate_morse_audio"}
    /\ sample_rate = SampleRate
    /\ peak_freq = 0 /\ band = NoBand
    /\ rng \in {[pick |-> 0, flip |-> 0]}
    /\ msg \in Messages /\ data = <<>>
    /\ envelope = <<>> /\ square_wave = <<>> /\ threshold2 = 0
    /\ on_dur = <<>> /\ off_dur = <<>>
    /\ dash_dot_chars = <<>> /\ space_types = <<>> /\ space_labels = <<-1, -1, -1>>
    /\ morse_words = <<>> /\ final_text = "" /\ morse_repr = ""
    /\ clustering_data = [on |-> <<>>, off |-> <<>>]
    /\ stdout = <<>> /\ exit_code = -1

EncodeApi ==
    /\ pc = "text_to_morse_audio_array"
    /\ data' = text_to_morse_audio_array(msg)
    /\ pc' = "encoded"
    /\ UNCHANGED <<sample_rate, peak_freq, band, rng, msg, envelope, square_wave,
                   threshold2, on_dur, off_dur,
                   dash_dot_chars, space_types, space_labels, morse_words, final_text,
                   morse_repr, clustering_data, stdout, exit_code>>

EncodeScript ==
    /\ pc = "generate_morse_audio"
    /\ encoder_text_to_morse(msg) # <<>>
    /\ data' = generate_morse_audio(encoder_text_to_morse(msg))
    /\ pc' = "encoded"
    /\ UNCHANGED <<sample_rate, peak_freq, band, rng, msg, envelope, square_wave,
                   threshold2, on_dur, off_dur,
                   dash_dot_chars, space_types, space_labels, morse_words, final_text,
                   morse_repr, clustering_data, stdout, exit_code>>

NextEncode == EncodeApi \/ EncodeScript

SpecEncode == InitEncode /\ [][NextEncode]_vars

(* ======================== properties of the run ======================== *)
RECURSIVE words_of(_, _, _)
words_of(m, acc, cur) ==
    IF m = <<>> THEN (IF cur = <<>> THEN acc ELSE Append(acc, cur))
    ELSE IF Head(m) = " "
    THEN words_of(Tail(m), IF cur = <<>> THEN acc ELSE Append(acc, cur), <<>>)
    ELSE words_of(Tail(m), acc, Append(cur, morse_code[upper(Head(m))]))

ExpectedWords(m) == words_of(m, <<>>, <<>>)

ExpectedText(m) == join("", [i \in 1..Len(m) |-> upper(m[i])])

AllEqual(s, v) == \A i \in 1..Len(s) : s[i] = v

SymCount(word) == SeqSum([c \in 1..Len(word) |-> Len(word[c])])

(* off-run i lies between symbols i and i + 1; a word boundary after off-run *)
(* i means symbol i ends a word and symbol i + 1 starts the next one         *)
WordBoundaries(words) ==
    {SeqSum([v \in 1..w |-> SymCount(words[v])]) : w \in 1..(Len(words) - 1)}

EmptyClustering == [on |-> <<>>, off |-> <<>>]

(* C1: round trip - every encoded message (letters, digits, period, single  *)
(* spaces) is decoded into the same characters and words and into the       *)
(* original upper-cased text.                                               *)
C1_RoundTrip ==
    (msg # <<>> /\ pc = "done") =>
        /\ morse_words = ExpectedWords(msg)
        /\ final_text = ExpectedText(msg)
        /\ Len(stdout) = 1 /\ stdout[1].text = ExpectedText(msg)

SOS == <<"S", "O", "S">>

(* C2 as stated: the tone bursts of "SOS" decode to morse                   *)
(* ". . . / - - - / . . ." and text "SOS".                                  *)
C2_SOS_Original ==
    (msg = SOS /\ pc = "done") =>
        /\ Len(stdout) = 1
        /\ stdout[1].morse = ". . . / - - - / . . ."
        /\ stdout[1].text = "SOS"

(* C2 amended: the tone bursts of "SOS" decode to one word of three         *)
(* characters, morse "... --- ..." (characters space-separated, no word     *)
(* separator), and text "SOS".                                              *)
C2_SOS ==
    (msg = SOS /\ pc = "done") =>
        /\ Len(stdout) = 1
        /\ stdout[1].morse = "... --- ..."
        /\ stdout[1].text = "SOS"
        /\ exit_code = 0

C2_Witness == msg = SOS /\ pc = "done" /\ Len(stdout) = 1

(* C3: word boundaries follow the space labels - group_morse_words starts a *)
(* new word exactly after the off-runs that identify_spaces labelled        *)
(* INTER_WORD, promoted ones included, and after no other off-run.          *)
C3_WordBoundaries ==
    pc = "translate" =>
        WordBoundaries(morse_words) =
            {i \in 1..Len(space_types) : space_types[i] = INTER_WORD_SPACE}

(* rank of the centre of off-run i's cluster among the centres of a fit *)
BaseLabel(fit, i) ==
    Cardinality({c \in 1..Len(fit.cluster_centers_) :
                    centre_lt(fit.cluster_centers_[c],
                              fit.cluster_centers_[fit.labels_[i] + 1])})

SmallestCentre(fit) ==
    CHOOSE c \in Range(fit.cluster_centers_) :
        \A d \in Range(fit.cluster_centers_) : ~centre_lt(d, c)

(* C4: two-cluster promotion - with exactly 2 clusters an off-run labelled  *)
(* INTER_LETTER is relabelled INTER_WORD iff its duration exceeds 5 times   *)
(* the smallest centroid, INTRA_CHAR labels stay, with 1 or 3 clusters no   *)
(* label is changed; [30, 30, 200] gets [INTRA, INTRA, INTER_WORD].         *)
C4_Promotion ==
    (pc = "group" /\ Len(off_dur) > 0) =>
        /\ identify_spaces(<<30, 30, 200>>, rng).space_types
               = <<INTRA_CHAR_SPACE, INTRA_CHAR_SPACE, INTER_WORD_SPACE>>
        /\ LET k == Min2(3, Cardinality(Range(off_dur)))
               fit == KMeans(off_dur, k, rng)
               c0 == SmallestCentre(fit)
           IN  \A i \in 1..Len(off_dur) :
                  LET b == BaseLabel(fit, i)
                  IN  space_types[i] =
                         IF k = 2 /\ b = INTER_LETTER_SPACE /\ off_dur[i] * c0[2] > 5 * c0[1]
                         THEN INTER_WORD_SPACE ELSE b

C4_Witness ==
    /\ pc = "group" /\ Cardinality(Range(off_dur)) = 2
    /\ INTER_WORD_SPACE \in Range(space_types)
    /\ INTRA_CHAR_SPACE \in Range(space_types)

(* C5: grouping without an INTRA_CHAR cluster - with the label assignment   *)
(* [-1, -1, -1] group_morse_words makes every off-run a character boundary  *)
(* and returns the words; one on-run gives one word of one one-symbol       *)
(* character.                                                               *)
C5_NoIntraCluster ==
    (pc \in {"translate", "except"} /\ space_labels[1] = -1) =>
        /\ pc = "translate"
        /\ morse_words = <<np_split(dash_dot_chars, [i \in 1..Len(off_dur) |-> i])>>

(* C6: duration extractor - before filtering, the number of off-durations   *)
(* is len(on) - 1, len(on) or len(on) + 1; after filtering every returned   *)
(* duration is strictly positive.                                           *)
C6_DurationShape ==
    pc \in {"no_signal", "dots_dashes"} =>
        /\ Len(off_samples_raw(square_wave)) - Len(on_samples_raw(square_wave))
               \in {-1, 0, 1}
        /\ \A i \in 1..Len(on_dur) : on_dur[i] > 0
        /\ \A i \in 1..Len(off_dur) : off_dur[i] > 0

C6_Witness ==
    /\ pc = "dots_dashes" /\ Len(on_dur) >= 2 /\ Len(off_dur) >= 1
    /\ square_wave[1] = 1 /\ square_wave[Len(square_wave)] = 1

(* C7 as stated: an all-on binarized sequence yields zero on-runs and the   *)
(* run ends with morse "" and text "No signal detected".                    *)
C7_AllOn_Original ==
    (pc = "done" /\ Len(square_wave) > 0 /\ AllEqual(square_wave, 1)) =>
        /\ Len(on_dur) = 0
        /\ Len(stdout) = 1
        /\ stdout[1].morse = "" /\ stdout[1].text = "No signal detected"

(* C7 amended: an all-on binarized sequence of length n yields exactly one  *)
(* on-run of duration n and no off-run, so the run does not take the        *)
(* no-signal branch; it does not crash: it emits exactly one result record  *)
(* and exits with status 0.                                                 *)
C7_AllOn ==
    (Len(square_wave) > 0 /\ AllEqual(square_wave, 1)) =>
        /\ pc # "no_signal"
        /\ pc \in {"dots_dashes", "spaces", "group", "translate", "except", "output", "done"} =>
              on_dur = <<Len(square_wave)>> /\ off_dur = <<>>
        /\ pc = "done" =>
              /\ Len(stdout) = 1 /\ exit_code = 0
              /\ stdout[1].text # "No signal detected"

C7_Witness ==
    pc = "done" /\ Len(square_wave) >= 2 /\ AllEqual(square_wave, 1) /\ Len(stdout) = 1

Constant(s) == \A i, j \in 1..Len(s) : s[i] = s[j]

(* C8 as stated: every all-zero or constant-amplitude envelope is binarized *)
(* to all zeros and the run reports the no-signal result.                   *)
C8_Silent_Original ==
    (pc \in {"durations", "done"} /\ Len(envelope) > 0 /\ Constant(envelope)) =>
        /\ AllEqual(square_wave, 0)
        /\ pc = "done" =>
              /\ Len(stdout) = 1
              /\ stdout[1].morse = "" /\ stdout[1].text = "No signal detected"

(* C8 amended: every all-zero envelope is binarized to all zeros with       *)
(* threshold 0 and the run reports the no-signal result; an envelope of one *)
(* constant non-zero amplitude is binarized to all ones (each sample        *)
(* exceeds 0.5 x max) and is not reported as no signal.                     *)
C8_Silent ==
    (pc \notin {"read", "threshold"} /\ Len(envelope) > 0 /\ Constant(envelope)) =>
        /\ Len(square_wave) = Len(envelope)
        /\ envelope[1] = 0 =>
              /\ AllEqual(square_wave, 0) /\ threshold2 = 0
              /\ pc = "done" =>
                    /\ Len(stdout) = 1
                    /\ stdout[1].morse = "" /\ stdout[1].text = "No signal detected"
        /\ envelope[1] # 0 =>
              /\ AllEqual(square_wave, 1)
              /\ pc = "done" => stdout[1].text # "No signal detected"

C8_Witness ==
    /\ pc = "done" /\ Len(envelope) >= 2 /\ AllEqual(envelope, 0)
    /\ Len(stdout) = 1 /\ stdout[1].text = "No signal detected"

IsResultRecord(r) == DOMAIN r = {"morse", "text", "visualization", "clustering"}

C10_StageFailure ==
    /\ [](/\ Len(stdout) <= 1
          /\ (pc = "done" /\ Len(data) > 0) => (Len(stdout) = 1 /\ exit_code = 0)
          /\ (pc = "done" /\ final_text = "Error decoding") =>
                stdout[1] = [morse |-> "", text |-> "Error decoding",
                             visualization |-> visualization,
                             clustering |-> EmptyClustering])
    /\ [][pc = "except" => (pc' = "output" /\ final_text' = "Error decoding")]_vars
    /\ [][(pc \in {"dots_dashes", "spaces", "group", "translate"}) =>
             (pc' \in {"spaces", "group", "translate", "output", "except"})]_vars

C10_Witness ==
    /\ pc = "done" /\ final_text = "Error decoding" /\ morse_words # <<>>
    /\ Len(stdout) = 1 /\ stdout[1].morse = ""

(* ------------------------- symbol classification ----------------------- *)
SetMax(S) == CHOOSE x \in S : \A y \in S : y <= x

SetMin(S) == CHOOSE x \in S : \A y \in S : x <= y

(* the durations of s fall into a short group (<= t) and a long group     *)
(* (> t) that lie farther apart than either group is wide                  *)
WellSeparated(s, t) ==
    LET short == {x \in Range(s) : x <= t}
        long == {x \in Range(s) : x > t}
    IN  /\ short # {} /\ long # {}
        /\ SetMax(short) - SetMin(short) < SetMin(long) - SetMax(short)
        /\ SetMax(long) - SetMin(long) < SetMin(long) - SetMax(short)

(* C11: when the on-durations come from two well-separated groups,        *)
(* identify_dots_dashes returns one symbol per on-run, in input order,    *)
(* "." for every duration of the short group and "-" for every duration   *)
(* of the long group, whatever the order of the runs and whatever the     *)
(* seed; no on-run labelled "." is longer than one labelled "-".          *)
C11_TwoClusters ==
    pc = "spaces" =>
        \A t \in Range(on_dur) :
            WellSeparated(on_dur, t) =>
                /\ Len(dash_dot_chars) = Len(on_dur)
                /\ \A i \in 1..Len(on_dur) :
                       dash_dot_chars[i] = IF on_dur[i] <= t THEN "." ELSE "-"
                /\ \A i, j \in 1..Len(on_dur) :
                       (dash_dot_chars[i] = "." /\ dash_dot_chars[j] = "-")
                           => on_dur[i] < on_dur[j]

C11_Witness ==
    /\ pc = "spaces"
    /\ on_dur = <<6, 1, 2>>
    /\ WellSeparated(on_dur, 2)
    /\ dash_dot_chars = <<"-", ".", ".">>
    /\ rng.flip = 1

(* C12: when every on-duration has the same value d, identify_dots_dashes *)
(* returns one label per on-run, all "." if d < int(0.1 * sample_rate)    *)
(* (that is, 10 * (d + 1) <= sample_rate) and all "-" otherwise.          *)
C12_Fallback ==
    (pc = "spaces" /\ Cardinality(Range(on_dur)) = 1) =>
        /\ Len(dash_dot_chars) = Len(on_dur)
        /\ \A i \in 1..Len(on_dur) :
               dash_dot_chars[i] =
                   IF 10 * (on_dur[1] + 1) <= sample_rate THEN "." ELSE "-"

C12_Witness ==
    /\ pc = "spaces"
    /\ sample_rate > SampleRate
    /\ on_dur = <<2, 2>>
    /\ dash_dot_chars = <<".", ".">>

(* --------------------------- space classification ---------------------- *)
(* C13: identify_spaces clusters with k = min(3, number of distinct       *)
(* off-durations) and returns one label per off-run, in input order:      *)
(* equal durations get equal labels and a longer duration never gets a    *)
(* smaller label; of the three slots (intra, letter, word) exactly the    *)
(* first k hold a cluster id, the others hold -1.                         *)
C13_SpaceOrder ==
    (pc = "group" /\ Len(off_dur) > 0) =>
        LET k == Min2(3, Cardinality(Range(off_dur)))
        IN  /\ Len(space_types) = Len(off_dur)
            /\ \A i \in 1..Len(off_dur) :
                   space_types[i] \in {INTRA_CHAR_SPACE, INTER_LETTER_SPACE,
                                       INTER_WORD_SPACE}
            /\ \A i, j \in 1..Len(off_dur) :
                   /\ off_dur[i] = off_dur[j] => space_types[i] = space_types[j]
                   /\ off_dur[i] < off_dur[j] => space_types[i] <= space_types[j]
            /\ Cardinality({r \in 1..3 : space_labels[r] # -1}) = k
            /\ \A r \in 1..3 : (space_labels[r] # -1) <=> (r <= k)
            /\ {space_labels[r] : r \in 1..k} = 0..(k - 1)

C13_Witness ==
    /\ pc = "group"
    /\ off_dur = <<5, 1>>
    /\ space_types = <<INTER_LETTER_SPACE, INTRA_CHAR_SPACE>>
    /\ space_labels = <<1, 0, -1>>
    /\ rng.flip = 1

(* ------------------------------ band-pass ------------------------------ *)
(* C15: for every sample rate and detected centre frequency,              *)
(* bandpass_filter_signal either returns its input unchanged or designs   *)
(* the filter with a low edge of at least 50 Hz and a high edge of at     *)
(* most Nyquist - 100 Hz (edges in half-hertz: 100 and sample_rate - 200). *)
C15_BandLimits ==
    (pc = "returned" /\ band # NoBand) =>
        \/ band.bypass
        \/ (band.low2 >= 100 /\ band.high2 <= sample_rate - 200)

(* ------------------------------ translation ---------------------------- *)
Letters ==
    {"A", "B", "C", "D", "E", "F", "G", "H", "I", "J", "K", "L", "M",
     "N", "O", "P", "Q", "R", "S", "T", "U", "V", "W", "X", "Y", "Z"}

Digits == {"0", "1", "2", "3", "4", "5", "6", "7", "8", "9"}

Glyphs == Letters \cup Digits \cup {"."}

(* the glyph the encoder's table gives for a character, "?" if none *)
GlyphOf(morse_char) ==
    IF \E g \in Glyphs : morse_code[g] = morse_char
    THEN CHOOSE g \in Glyphs : morse_code[g] = morse_char
    ELSE "?"

(* a pipeline run that has just translated its words *)
Translated == pc = "output" /\ clustering_data.on # <<>>

(* C16: translate_morse gives one glyph per character, the glyph of the   *)
(* table if the character is in the table and "?" if it is not, and joins *)
(* the words with single spaces; the decoder's table maps the encoder's   *)
(* code of every letter, digit and the period back to that glyph and has  *)
(* no other entry.                                                        *)
C16_Translation ==
    /\ \A g \in Glyphs :
           morse_code[g] \in DOMAIN MORSE_CODE_DICT
           /\ MORSE_CODE_DICT[morse_code[g]] = g
    /\ DOMAIN MORSE_CODE_DICT = {morse_code[g] : g \in Glyphs}
    /\ Translated =>
           /\ final_text =
                  join(" ", [w \in 1..Len(morse_words) |->
                               join("", [c \in 1..Len(morse_words[w]) |->
                                           GlyphOf(morse_words[w][c])])])
           /\ Len(final_text) =
                  SeqSum([w \in 1..Len(morse_words) |-> Len(morse_words[w])])
                  + (Len(morse_words) - 1)

C16_Witness ==
    /\ Translated
    /\ morse_words = <<<< <<".", "-", ".", "-">>, <<".">> >>>>
    /\ final_text = "?E"

(* ------------------------------- envelope ------------------------------ *)
(* C17: for a non-empty input of length n and a window of length w >= 1,  *)
(* smoothed_power returns an envelope of length n, and squared_signal     *)
(* returns a binary sequence as long as the envelope.                     *)
C17_LengthPreserved ==
    /\ pc \in {"squared_signal", "returned"} => Len(envelope) = Len(data)
    /\ pc = "returned" => Len(square_wave) = Len(envelope)

(* -------------------------------- grouping ----------------------------- *)
RECURSIVE Concat(_)
Concat(ss) == IF ss = <<>> THEN <<>> ELSE Head(ss) \o Concat(Tail(ss))

(* C18: whenever group_morse_words returns, no word and no character is   *)
(* empty, the characters of all words concatenated in order are the input *)
(* symbol sequence, and the number of characters is one more than the     *)
(* number of off-runs that are character boundaries (not INTRA_CHAR).     *)
C18_GroupingKeepsSymbols ==
    pc = "translate" =>
        /\ \A w \in 1..Len(morse_words) :
               /\ morse_words[w] # <<>>
               /\ \A c \in 1..Len(morse_words[w]) : morse_words[w][c] # <<>>
        /\ Concat(Concat(morse_words)) = dash_dot_chars
        /\ Len(Concat(morse_words)) =
               1 + Cardinality({i \in 1..Len(off_dur) :
                                  space_types[i] # INTRA_CHAR_SPACE})

C18_Witness ==
    /\ pc = "translate"
    /\ off_dur = <<1, 5, 7, 1>>
    /\ dash_dot_chars = <<".", "-", ".", "-", ".">>
    /\ morse_words = << << <<".", "-">>, <<".">> >>, << <<"-", ".">> >> >>

(* off-runs after which a character of the grouped words ends: the       *)
(* numbers of symbols up to the end of each character but the last        *)
CharEnds(words) ==
    LET chars == Concat(words)
    IN  {Len(Concat(SubSeq(chars, 1, j))) : j \in 1..(Len(chars) - 1)}

(* C19: the clustering that group_morse_words re-runs agrees with the one *)
(* of identify_spaces (same k, same seed): the off-runs at which the      *)
(* grouper ends a character are exactly the off-runs that identify_spaces *)
(* did not label INTRA_CHAR.                                              *)
C19_SameBoundaries ==
    pc = "translate" =>
        CharEnds(morse_words) =
            {i \in 1..Len(off_dur) : space_types[i] # INTRA_CHAR_SPACE}

(* a run whose off-durations have two converged 3-clusterings with        *)
(* different smallest clusters ({1}, {2, 3}, {7} and {1, 2}, {3}, {7})     *)
C19_Witness ==
    /\ pc = "translate"
    /\ off_dur = <<2, 1, 7, 3>>
    /\ rng.pick = 1
    /\ CharEnds(morse_words) \in {{3, 4}, {1, 3, 4}}
    /\ CharEnds(morse_words) = {i \in 1..4 : space_types[i] # INTRA_CHAR_SPACE}

(* ------------------------------ run lengths ---------------------------- *)
(* the maximal runs of equal values of sq, in order, as [val, len] *)
RECURSIVE RunsOf(_)
RunsOf(sq) ==
    IF sq = <<>> THEN <<>>
    ELSE LET rest == RunsOf(Tail(sq))
         IN  IF rest # <<>> /\ rest[1].val = Head(sq)
             THEN <<[val |-> Head(sq), len |-> rest[1].len + 1]>> \o Tail(rest)
             ELSE <<[val |-> Head(sq), len |-> 1]>> \o rest

RunLengths(runs) == [i \in 1..Len(runs) |-> runs[i].len]

OnRuns(sq) == RunLengths(SelectSeq(RunsOf(sq), LAMBDA r : r.val = 1))

(* the runs of 0 that have a run of 1 on both sides *)
InnerOffRuns(sq) ==
    LET runs == RunsOf(sq)
        inner == SelectSeq([i \in 1..Len(runs) |-> i],
                           LAMBDA i : runs[i].val = 0 /\ i > 1 /\ i < Len(runs))
    IN  [j \in 1..Len(inner) |-> runs[inner[j]].len]

(* C20: the on-durations are the lengths of all maximal runs of 1 of the  *)
(* binary sequence, in order, runs touching the first or the last index   *)
(* included; the off-durations are the lengths of the maximal runs of 0   *)
(* between two on-runs (leading and trailing silence is not reported); if *)
(* there is an on-run, there is one off-duration fewer than on-durations. *)
C20_RunLengths ==
    pc \in {"dots_dashes", "no_signal"} =>
        /\ on_dur = OnRuns(square_wave)
        /\ off_dur = InnerOffRuns(square_wave)
        /\ Len(on_dur) >= 1 => Len(off_dur) = Len(on_dur) - 1

C20_Witness ==
    /\ pc = "dots_dashes"
    /\ square_wave = <<1, 0, 0, 1, 1>>
    /\ on_dur = <<1, 2>>
    /\ off_dur = <<2>>

(* ------------------------------ gap timing ----------------------------- *)
(* the silences that text m should have between its tone bursts, in       *)
(* samples: 1 dot unit inside a character, 3 between two characters of a  *)
(* word, 7 between two words (m has single blanks, none at either end)    *)
RECURSIVE ExpectedGaps(_)
ExpectedGaps(m) ==
    IF m = <<>> THEN <<>>
    ELSE IF Head(m) = " " THEN ExpectedGaps(Tail(m))
    ELSE LET unit == SampleRate \div 10
             symbols == Len(morse_code[upper(Head(m))])
         IN  Rep(unit, symbols - 1)
             \o (IF Tail(m) = <<>> THEN <<>>
                 ELSE IF Tail(m)[1] = " " THEN <<7 * unit>>
                 ELSE <<3 * unit>>)
             \o ExpectedGaps(Tail(m))

(* C21: in the audio of either encoder the silence between two symbols of *)
(* a character lasts 1 dot unit, the silence between two characters of a  *)
(* word 3 units, and the whole silence between two words 7 units.         *)
C21_GapTiming ==
    pc = "encoded" =>
        InnerOffRuns([i \in 1..Len(data) |-> IF data[i] # 0 THEN 1 ELSE 0])
            = ExpectedGaps(msg)

=============================================================================
